---- MODULE Spec2Model ----
(***************************************************************************)
(* College portal (src/app.py): a Flask application over five MongoDB      *)
(* collections.  Every route handler is one atomic action: it reads the    *)
(* session and the request, reads and writes the collections, and answers. *)
(*                                                                         *)
(* Modelling conventions                                                   *)
(*  - a collection is the sequence of its documents in insertion (natural) *)
(*    order; find_one / update_one / delete_one act on the first match;    *)
(*  - a document is a function from field names to values, so that a       *)
(*    missing field is a missing key (dict.get with a default is Get);     *)
(*  - form fields that the code parses or normalises (int, float, strip,   *)
(*    upper) are sequences of one-character strings, and the conversions   *)
(*    are computed character by character;                                 *)
(*  - a float is kept in hundredths (95.0 is 9500), exact for the inputs   *)
(*    used here, which have at most two fractional digits;                 *)
(*  - an uncaught Python exception is the answer ServerError and leaves    *)
(*    the store as it was (every raise in app.py precedes the handler's    *)
(*    write);                                                              *)
(*  - request is the request most recently received and response the       *)
(*    answer given to it.                                                  *)
(*  - requests are served one at a time: a handler's store calls are not   *)
(*    interleaved with another request's;                                  *)
(*  - int and float are modelled for signs, digits, a decimal point and    *)
(*    surrounding blanks (no exponent, underscore, inf or nan), and a      *)
(*    rounding tie goes to the even neighbour, as round() does when the    *)
(*    quotient is exact in binary.                                         *)
(* Student fields batch, dob and gender are carried like department and    *)
(* are left out, as are the averages the student pages show; name is kept. *)
(*                                                                         *)
(* Spec is the whole portal.  SpecGates, SpecQueries, SpecAttendance and   *)
(* SpecCompute drive the same handlers with the routes and the inputs one  *)
(* group of properties is about.                                           *)
(***************************************************************************)
EXTENDS Integers, Sequences, FiniteSets, TLC

VARIABLES students, results, attendance, queries, admins, session, request, response

vars == <<students, results, attendance, queries, admins, session, request, response>>

store == <<students, results, attendance, queries, admins>>

(***************************************************************************)
(* Bounds of the model.                                                    *)
(***************************************************************************)
MaxStudents == 2

MaxResults == 1

MaxQueries == 2

MaxFilledRows == 2

(***************************************************************************)
(* Documents, filters and the record store (pymongo).                      *)
(***************************************************************************)
EmptyDoc == [k \in {} |-> ""]

Get(doc, key, default) == IF key \in DOMAIN doc THEN doc[key] ELSE default

Matches(doc, filter) == \A k \in DOMAIN filter : k \in DOMAIN doc /\ doc[k] = filter[k]

MatchesAny(doc, filters) == \E f \in filters : Matches(doc, f)

Find(coll, filter) == SelectSeq(coll, LAMBDA d : Matches(d, filter))

FirstIndex(coll, filters) ==
    LET hits == {i \in 1..Len(coll) : MatchesAny(coll[i], filters)}
    IN  IF hits = {} THEN 0 ELSE CHOOSE i \in hits : \A j \in hits : i <= j

FindOne(coll, filter) ==
    LET i == FirstIndex(coll, {filter})
    IN  IF i = 0 THEN <<>> ELSE <<coll[i]>>

InsertOne(coll, doc) == Append(coll, doc)

SetFields(doc, fields) == fields @@ doc

UpdateOne(coll, filter, fields) ==
    LET i == FirstIndex(coll, {filter})
    IN  IF i = 0 THEN coll ELSE [coll EXCEPT ![i] = SetFields(coll[i], fields)]

\* An upsert that inserts without looking for a match.
UpsertOne_AlwaysInserts(coll, filter, fields) == Append(coll, SetFields(filter, fields))

UpsertOne(coll, filter, fields) ==
    IF FirstIndex(coll, {filter}) = 0
    THEN Append(coll, SetFields(filter, fields))
    ELSE UpdateOne(coll, filter, fields)

DeleteOne(coll, filter) ==
    LET i == FirstIndex(coll, {filter})
    IN  IF i = 0 THEN coll
        ELSE SubSeq(coll, 1, i - 1) \o SubSeq(coll, i + 1, Len(coll))

DeleteMany(coll, filter) == SelectSeq(coll, LAMBDA d : ~Matches(d, filter))

(***************************************************************************)
(* werkzeug.security: a hash is checked against the password it was made   *)
(* from.                                                                   *)
(***************************************************************************)
generate_password_hash(p) == <<"hash", p>>

check_password_hash(h, p) == h = <<"hash", p>>

(***************************************************************************)
(* Requests and responses.                                                         *)
(***************************************************************************)
NoRequest == [route |-> "none", method |-> "none"]

NoResponse == [kind |-> "none"]

Redirect(to) == [kind |-> "redirect", location |-> to]

Text(body) == [kind |-> "text", body |-> body]

Render(template, context) == [kind |-> "render", template |-> template, context |-> context]

ServerError == [kind |-> "error", status |-> 500]

(***************************************************************************)
(* str.strip, str.upper, int and float on character sequences.             *)
(***************************************************************************)
DigitChars == <<"0", "1", "2", "3", "4", "5", "6", "7", "8", "9">>

LowerChars == <<"a", "b", "c", "d", "e", "f", "g", "h", "i", "j", "k", "l", "m",
                "n", "o", "p", "q", "r", "s", "t", "u", "v", "w", "x", "y", "z">>

UpperChars == <<"A", "B", "C", "D", "E", "F", "G", "H", "I", "J", "K", "L", "M",
                "N", "O", "P", "Q", "R", "S", "T", "U", "V", "W", "X", "Y", "Z">>

IsSpace(c) == c \in {" ", "\t", "\n"}

IsDigit(c) == \E i \in 1..10 : DigitChars[i] = c

DigitVal(c) == (CHOOSE i \in 1..10 : DigitChars[i] = c) - 1

UpperChar(c) ==
    IF \E i \in 1..26 : LowerChars[i] = c
    THEN UpperChars[CHOOSE i \in 1..26 : LowerChars[i] = c]
    ELSE c

Upper(s) == [i \in 1..Len(s) |-> UpperChar(s[i])]

RECURSIVE LStrip(_)
LStrip(s) == IF s # <<>> /\ IsSpace(Head(s)) THEN LStrip(Tail(s)) ELSE s

RECURSIVE RStrip(_)
RStrip(s) ==
    IF s # <<>> /\ IsSpace(s[Len(s)]) THEN RStrip(SubSeq(s, 1, Len(s) - 1)) ELSE s

Strip(s) == RStrip(LStrip(s))

AllDigits(s) == \A i \in 1..Len(s) : IsDigit(s[i])

RECURSIVE DigitsValue(_)
DigitsValue(s) ==
    IF s = <<>> THEN 0
    ELSE 10 * DigitsValue(SubSeq(s, 1, Len(s) - 1)) + DigitVal(s[Len(s)])

Unsigned(s) == IF s # <<>> /\ Head(s) \in {"+", "-"} THEN Tail(s) ELSE s

Sign(s) == IF s # <<>> /\ Head(s) = "-" THEN -1 ELSE 1

ParseFailed == [ok |-> FALSE, val |-> 0]

\* int(text): surrounding whitespace, an optional sign, one or more digits.
ParseInt(text) ==
    LET t == Strip(text)
        u == Unsigned(t)
    IN  IF u # <<>> /\ AllDigits(u)
        THEN [ok |-> TRUE, val |-> Sign(t) * DigitsValue(u)]
        ELSE ParseFailed

\* float(text), in hundredths: digits, optionally a point and digits.
ParseFloat(text) ==
    LET t == Strip(text)
        u == Unsigned(t)
        dots == {i \in 1..Len(u) : u[i] = "."}
        p == IF dots = {} THEN Len(u) + 1 ELSE CHOOSE i \in dots : \A j \in dots : i <= j
        whole == SubSeq(u, 1, p - 1)
        frac == SubSeq(u, p + 1, Len(u))
        frac2 == SubSeq(frac \o <<"0", "0">>, 1, 2)
    IN  IF /\ Cardinality(dots) <= 1
           /\ Len(whole) + Len(frac) > 0
           /\ AllDigits(whole)
           /\ AllDigits(frac)
        THEN [ok |-> TRUE, val |-> Sign(t) * (100 * DigitsValue(whole) + DigitsValue(frac2))]
        ELSE ParseFailed

\* round(n / d, 0) for d > 0: to the nearest integer, a tie to the even one.
RoundDiv(n, d) ==
    LET q == n \div d
        r == n % d
    IN  IF 2 * r < d THEN q
        ELSE IF 2 * r > d THEN q + 1
        ELSE IF q % 2 = 0 THEN q ELSE q + 1

(***************************************************************************)
(* Constants of app.py.                                                    *)
(***************************************************************************)
GRADE_POINTS(grade) ==
    CASE grade = <<"O">> -> 10
      [] grade = <<"A", "+">> -> 9
      [] grade = <<"A">> -> 8
      [] grade = <<"B", "+">> -> 7
      [] grade = <<"B">> -> 6
      [] grade = <<"C">> -> 5
      [] grade = <<"U">> -> 0
      [] grade = <<"W">> -> 0
      [] OTHER -> 0

\* p is a percentage in hundredths.
attendance_grade(p) ==
    IF p >= 9500 THEN "O"
    ELSE IF p >= 8500 THEN "M"
    ELSE IF p >= 7500 THEN "S"
    ELSE "U"

AdminEmail == "admin@gmail.com"

AdminPassword == "admin@1234"

SeededAdmins ==
    <<[email |-> AdminEmail, password |-> generate_password_hash(AdminPassword),
       role |-> "admin"]>>

(***************************************************************************)
(* Session gates and the aggregation shared by the dashboard and report.   *)
(***************************************************************************)
\* A gate that lets any identity through.
AdminInSession_AnyIdentity == DOMAIN session # {}

AdminInSession == "admin" \in DOMAIN session

RegInSession == "reg" \in DOMAIN session

\* departments[dept] = departments.get(dept, 0) + 1, in order of first occurrence.
RECURSIVE DepartmentCounts(_, _)
DepartmentCounts(all_students, departments) ==
    IF all_students = <<>> THEN departments
    ELSE LET dept == Get(Head(all_students), "department", "N/A")
             i == FirstIndex(departments, {[_id |-> dept]})
         IN  DepartmentCounts(Tail(all_students),
                 IF i = 0
                 THEN Append(departments, [_id |-> dept, student_count |-> 1])
                 ELSE [departments EXCEPT ![i].student_count = @ + 1])

(***************************************************************************)
(* Admin routes.                                                           *)
(***************************************************************************)
\* form: email, password
admin_login(method, form) ==
    LET admin == FindOne(admins, [email |-> form.email])
    IN  /\ request' = [route |-> "/admin", method |-> method, form |-> form]
        /\ IF method = "POST"
           THEN IF admin # <<>> /\ check_password_hash(admin[1].password, form.password)
                THEN /\ session' = ("admin" :> admin[1].email) @@ session
                     /\ response' = Redirect("/admin/dashboard")
                ELSE /\ session' = session
                     /\ response' = Text("Invalid Admin Login")
           ELSE /\ session' = session
                /\ response' = Render("admin_login.html", EmptyDoc)
        /\ UNCHANGED store

admin_dashboard ==
    /\ request' = [route |-> "/admin/dashboard", method |-> "GET"]
    /\ response' =
          IF ~AdminInSession THEN Redirect("/admin")
          ELSE LET department_students == DepartmentCounts(students, <<>>)
               IN  Render("admin_dashboard.html",
                          [total_students |-> Len(students),
                           total_departments |-> Len(department_students),
                           total_queries |-> Len(queries),
                           department_students |-> department_students])
    /\ UNCHANGED <<store, session>>

\* form: register_no, name, email, password, department
admin_add_student(method, form) ==
    /\ request' = [route |-> "/admin/add-student", method |-> method, form |-> form]
    /\ IF ~AdminInSession
       THEN /\ response' = Redirect("/admin")
            /\ students' = students
       ELSE IF method = "POST"
       THEN IF FirstIndex(students, {[register_no |-> form.register_no],
                                     [email |-> form.email]}) # 0
            THEN /\ response' = Text("Student already exists")
                 /\ students' = students
            ELSE /\ Len(students) < MaxStudents
                 /\ students' = InsertOne(students,
                        [register_no |-> form.register_no,
                         name |-> form.name,
                         email |-> form.email,
                         password |-> generate_password_hash(form.password),
                         department |-> form.department])
                 /\ response' = Redirect("/admin/add-student")
       ELSE /\ response' = Render("admin_add_student.html", [students |-> students])
            /\ students' = students
    /\ UNCHANGED <<results, attendance, queries, admins, session>>

\* form: register_no, department, semester, subject, total, attended
admin_attendance(method, form) ==
    LET total_classes == ParseInt(form.total)
        attended_classes == ParseInt(form.attended)
        attendance_percentage ==
            IF total_classes.val > 0
            THEN RoundDiv(attended_classes.val * 10000, total_classes.val)
            ELSE 0
    IN  /\ request' = [route |-> "/admin/attendance", method |-> method, form |-> form]
        /\ IF ~AdminInSession
           THEN /\ response' = Redirect("/admin")
                /\ attendance' = attendance
           ELSE IF method = "POST"
           THEN IF ~total_classes.ok \/ ~attended_classes.ok
                THEN /\ response' = ServerError
                     /\ attendance' = attendance
                ELSE /\ attendance' = UpsertOne(attendance,
                            [register_no |-> form.register_no,
                             semester |-> form.semester,
                             subject |-> form.subject],
                            [department |-> form.department,
                             total_classes |-> total_classes.val,
                             attended_classes |-> attended_classes.val,
                             attendance_percentage |-> attendance_percentage])
                     /\ response' = Text("Attendance uploaded successfully")
           ELSE /\ response' = Render("admin_attendance.html", EmptyDoc)
                /\ attendance' = attendance
        /\ UNCHANGED <<students, results, queries, admins, session>>

get_student_department(register_no) ==
    LET student == FindOne(students, [register_no |-> register_no])
    IN  /\ request' = [route |-> "/get-student-department", method |-> "GET",
                       register_no |-> register_no]
        /\ response' = Text([department |->
                                IF student # <<>>
                                THEN Get(student[1], "department", "null")
                                ELSE ""])
        /\ UNCHANGED <<store, session>>

get_student_attendance(register_no, semester, subject) ==
    LET record == FindOne(attendance, [register_no |-> register_no,
                                       semester |-> semester, subject |-> subject])
    IN  /\ request' = [route |-> "/get-student-attendance", method |-> "GET",
                       register_no |-> register_no, semester |-> semester,
                       subject |-> subject]
        /\ response' = Text([percentage |->
                                IF record # <<>>
                                THEN Get(record[1], "attendance_percentage", 0)
                                ELSE 0])
        /\ UNCHANGED <<store, session>>

admin_delete_student(register_no) ==
    /\ request' = [route |-> "/admin/delete-student", method |-> "GET",
                   register_no |-> register_no]
    /\ IF ~AdminInSession
       THEN /\ response' = Redirect("/admin")
            /\ UNCHANGED <<students, results, attendance>>
       ELSE /\ students' = DeleteOne(students, [register_no |-> register_no])
            /\ results' = DeleteMany(results, [register_no |-> register_no])
            /\ attendance' = DeleteMany(attendance, [register_no |-> register_no])
            /\ response' = Redirect("/admin/add-student")
    /\ UNCHANGED <<queries, admins, session>>

\* form: name, email, department.  The defaults student.get(...) of the optional
\* fields are evaluated before the update, so a missing student raises.
admin_edit_profile(register_no, method, form) ==
    LET student == FindOne(students, [register_no |-> register_no])
    IN  /\ request' = [route |-> "/admin/edit-profile", method |-> method,
                       register_no |-> register_no, form |-> form]
        /\ IF ~AdminInSession
           THEN /\ response' = Redirect("/admin")
                /\ students' = students
           ELSE IF method = "POST"
           THEN IF student = <<>>
                THEN /\ response' = ServerError
                     /\ students' = students
                ELSE /\ students' = UpdateOne(students, [register_no |-> register_no],
                            [name |-> form.name, email |-> form.email,
                             department |-> form.department])
                     /\ response' = Redirect("/admin/add-student")
           ELSE /\ response' = Render("admin_edit_profile.html", [student |-> student])
                /\ students' = students
        /\ UNCHANGED <<results, attendance, queries, admins, session>>

\* form: name, email, department
admin_update_student(register_no, form) ==
    /\ request' = [route |-> "/admin/update-student", method |-> "POST",
                   register_no |-> register_no, form |-> form]
    /\ IF ~AdminInSession
       THEN /\ response' = Redirect("/admin")
            /\ students' = students
       ELSE /\ students' = UpdateOne(students, [register_no |-> register_no],
                   [name |-> form.name, email |-> form.email,
                    department |-> form.department])
            /\ response' = Redirect("/admin/add-student")
    /\ UNCHANGED <<results, attendance, queries, admins, session>>

(***************************************************************************)
(* Result upload: the loop over the five subject rows of the form.         *)
(* form: register_no, semester, rows; a row: code, name, grade, credit,    *)
(* att.  A row whose code is empty is skipped without reading its fields.  *)
(***************************************************************************)
NumRows == 5

None == "<None>"

FirstAccumulator ==
    [ok |-> TRUE, subjects |-> <<>>, total_points |-> 0, total_credits |-> 0,
     overall_pass |-> TRUE]

\* A subject entry for which only the grade U fails.
SubjectEntry_OnlyUFails(row) ==
    LET grade == Upper(Strip(row.grade))
        att == ParseFloat(row.att).val
        result_status == IF grade = <<"U">> THEN "FAIL" ELSE "PASS"
    IN  [code |-> row.code,
         name |-> row.name,
         credit |-> ParseInt(row.credit).val,
         grade |-> grade,
         grade_point |-> GRADE_POINTS(grade),
         attendance_percentage |-> att,
         attendance_grade |-> attendance_grade(att),
         result |-> result_status]

SubjectEntry(row) ==
    LET grade == Upper(Strip(row.grade))
        att == ParseFloat(row.att).val
        result_status == IF grade \in {<<"U">>, <<"W">>} THEN "FAIL" ELSE "PASS"
    IN  [code |-> row.code,
         name |-> row.name,
         credit |-> ParseInt(row.credit).val,
         grade |-> grade,
         grade_point |-> GRADE_POINTS(grade),
         attendance_percentage |-> att,
         attendance_grade |-> attendance_grade(att),
         result |-> result_status]

\* A loop that passes over a row it cannot parse instead of raising.
RECURSIVE ReadRows_SkipsMalformedRow(_, _, _)
ReadRows_SkipsMalformedRow(rows, i, acc) ==
    IF i > NumRows THEN acc
    ELSE IF rows[i].code = "" THEN ReadRows_SkipsMalformedRow(rows, i + 1, acc)
    ELSE IF ~ParseInt(rows[i].credit).ok \/ ~ParseFloat(rows[i].att).ok
    THEN ReadRows_SkipsMalformedRow(rows, i + 1, acc)
    ELSE LET sub == SubjectEntry(rows[i])
         IN  ReadRows_SkipsMalformedRow(rows, i + 1,
                 [ok |-> TRUE,
                  subjects |-> Append(acc.subjects, sub),
                  total_points |-> acc.total_points + sub.grade_point * sub.credit,
                  total_credits |-> acc.total_credits + sub.credit,
                  overall_pass |-> acc.overall_pass /\ sub.result # "FAIL"])

RECURSIVE ReadRows(_, _, _)
ReadRows(rows, i, acc) ==
    IF i > NumRows \/ ~acc.ok THEN acc
    ELSE IF rows[i].code = "" THEN ReadRows(rows, i + 1, acc)
    ELSE IF ~ParseInt(rows[i].credit).ok \/ ~ParseFloat(rows[i].att).ok
    THEN [acc EXCEPT !.ok = FALSE]
    ELSE LET sub == SubjectEntry(rows[i])
         IN  ReadRows(rows, i + 1,
                 [ok |-> TRUE,
                  subjects |-> Append(acc.subjects, sub),
                  total_points |-> acc.total_points + sub.grade_point * sub.credit,
                  total_credits |-> acc.total_credits + sub.credit,
                  overall_pass |-> acc.overall_pass /\ sub.result # "FAIL"])

\* A result document whose gpa is cut to two decimals instead of rounded.
ResultDocument_TruncatesGpa(form, acc) ==
    [register_no |-> form.register_no,
     semester |-> ParseInt(form.semester).val,
     subjects |-> acc.subjects,
     total_credits |-> acc.total_credits,
     gpa |-> IF acc.total_credits > 0
             THEN (acc.total_points * 100) \div acc.total_credits
             ELSE 0,
     final_result |-> IF acc.overall_pass THEN "PASS" ELSE "FAIL"]

\* The document upload_result inserts; gpa is in hundredths.
ResultDocument(form, acc) ==
    [register_no |-> form.register_no,
     semester |-> ParseInt(form.semester).val,
     subjects |-> acc.subjects,
     total_credits |-> acc.total_credits,
     gpa |-> IF acc.total_credits > 0
             THEN RoundDiv(acc.total_points * 100, acc.total_credits)
             ELSE 0,
     final_result |-> IF acc.overall_pass THEN "PASS" ELSE "FAIL"]

upload_result(method, form) ==
    LET sem == ParseInt(form.semester)
        acc == ReadRows(form.rows, 1, FirstAccumulator)
    IN  /\ request' = [route |-> "/admin/upload", method |-> method, form |-> form]
        /\ IF ~AdminInSession
           THEN /\ response' = Redirect("/admin")
                /\ results' = results
           ELSE IF method = "POST"
           THEN IF ~sem.ok \/ ~acc.ok
                THEN /\ response' = ServerError
                     /\ results' = results
                ELSE /\ Len(results) < MaxResults
                     /\ results' = InsertOne(results, ResultDocument(form, acc))
                     /\ response' = Text("Result Uploaded Successfully")
           ELSE /\ response' = Render("admin_upload_result.html", EmptyDoc)
                /\ results' = results
        /\ UNCHANGED <<students, attendance, queries, admins, session>>

(***************************************************************************)
(* Admin report and queries.                                               *)
(***************************************************************************)
SubjectSummary(r, sub) ==
    [semester |-> Get(r, "semester", None),
     subject |-> Get(sub, "name", None),
     grade |-> Get(sub, "grade", None),
     attendance_grade |-> Get(sub, "attendance_grade", None),
     result |-> Get(sub, "result", None)]

RECURSIVE ResultSummary(_)
ResultSummary(student_results) ==
    IF student_results = <<>> THEN <<>>
    ELSE LET r == Head(student_results)
             subs == Get(r, "subjects", <<>>)
         IN  [i \in 1..Len(subs) |-> SubjectSummary(r, subs[i])]
                 \o ResultSummary(Tail(student_results))

ReportEntry(s) ==
    LET reg == s.register_no
        student_attendance == Find(attendance, [register_no |-> reg])
        student_results == Find(results, [register_no |-> reg])
        student_query == FindOne(queries, [register_no |-> reg])
    IN  [register_no |-> reg,
         name |-> s.name,
         department |-> Get(s, "department", "N/A"),
         attendance_posted |-> Len(student_attendance) > 0,
         result_summary |-> ResultSummary(student_results),
         query_status |-> IF student_query # <<>>
                          THEN Get(student_query[1], "status", "Pending")
                          ELSE None]

admin_report ==
    /\ request' = [route |-> "/admin/reports", method |-> "GET"]
    /\ response' =
          IF ~AdminInSession THEN Redirect("/admin")
          ELSE Render("admin_reports.html",
                      [report |-> [i \in 1..Len(students) |-> ReportEntry(students[i])],
                       total_students |-> Len(students),
                       total_queries |-> Len(queries),
                       department_students |-> DepartmentCounts(students, <<>>)])
    /\ UNCHANGED <<store, session>>

\* No query carries created_at, so the sort keeps the natural order.
QueryWithDepartment(q) ==
    LET student == FindOne(students, [register_no |-> q.register_no])
    IN  [department |-> IF student # <<>>
                        THEN Get(student[1], "department", "N/A") ELSE "N/A"] @@ q

admin_queries ==
    /\ request' = [route |-> "/admin/queries", method |-> "GET"]
    /\ response' =
          IF ~AdminInSession THEN Redirect("/admin")
          ELSE Render("admin_queries.html",
                      [queries |-> [i \in 1..Len(queries) |->
                                        QueryWithDepartment(queries[i])]])
    /\ UNCHANGED <<store, session>>

\* admin_reply without the refusal of an empty reply.
admin_reply_AcceptsEmptyReply(id, form) ==
    LET reply_text == Get(form, "reply", "")
    IN  /\ request' = [route |-> "/admin/reply", method |-> "POST", id |-> id,
                       form |-> form]
        /\ IF ~AdminInSession
           THEN /\ response' = Redirect("/admin")
                /\ queries' = queries
           ELSE IF ~id.wf
           THEN /\ response' = ServerError
                /\ queries' = queries
           ELSE /\ queries' = UpdateOne(queries, [_id |-> id.oid],
                                        [reply |-> reply_text, status |-> "Replied"])
                /\ response' = Redirect("/admin/queries")
        /\ UNCHANGED <<students, results, attendance, admins, session>>

\* id: wf says whether the text is a well-formed ObjectId, oid which one.
\* form: reply
admin_reply(id, form) ==
    LET reply_text == Get(form, "reply", "")
    IN  /\ request' = [route |-> "/admin/reply", method |-> "POST", id |-> id,
                       form |-> form]
        /\ IF ~AdminInSession
           THEN /\ response' = Redirect("/admin")
                /\ queries' = queries
           ELSE IF reply_text = ""
           THEN /\ response' = Text("Reply cannot be empty")
                /\ queries' = queries
           ELSE IF ~id.wf
           THEN /\ response' = ServerError
                /\ queries' = queries
           ELSE /\ queries' = UpdateOne(queries, [_id |-> id.oid],
                                        [reply |-> reply_text, status |-> "Replied"])
                /\ response' = Redirect("/admin/queries")
        /\ UNCHANGED <<students, results, attendance, admins, session>>

(***************************************************************************)
(* Student routes.                                                         *)
(***************************************************************************)
\* form: register_no, name, email, password
student_register(method, form) ==
    /\ request' = [route |-> "/student/register", method |-> method, form |-> form]
    /\ IF method = "POST"
       THEN /\ Len(students) < MaxStudents
            /\ students' = InsertOne(students,
                   [register_no |-> form.register_no,
                    name |-> form.name,
                    email |-> form.email,
                    password |-> generate_password_hash(form.password)])
            /\ response' = Redirect("/student/login")
       ELSE /\ students' = students
            /\ response' = Render("student_register.html", EmptyDoc)
    /\ UNCHANGED <<results, attendance, queries, admins, session>>

\* form: email, password.  A student document without a password (the one
\* test_insert makes) raises KeyError.
student_login(method, form) ==
    LET s == FindOne(students, [email |-> form.email])
    IN  /\ request' = [route |-> "/student/login", method |-> method, form |-> form]
        /\ IF method = "POST"
           THEN IF s # <<>> /\ "password" \notin DOMAIN s[1]
                THEN /\ session' = session
                     /\ response' = ServerError
                ELSE IF s # <<>> /\ check_password_hash(s[1].password, form.password)
                THEN /\ session' = ("reg" :> s[1].register_no) @@ session
                     /\ response' = Redirect("/student/dashboard")
                ELSE /\ session' = session
                     /\ response' = Text("Invalid Student Login")
           ELSE /\ session' = session
                /\ response' = Render("student_login.html", EmptyDoc)
        /\ UNCHANGED store

\* What the dashboard and the summary hand to their templates.
StudentOverview(reg) ==
    LET student_attendance == Find(attendance, [register_no |-> reg])
    IN  [student |-> FindOne(students, [register_no |-> reg]),
         all_results |-> Find(results, [register_no |-> reg]),
         attendance |-> student_attendance,
         queries |-> Find(queries, [register_no |-> reg]),
         pending_queries |-> Len(Find(queries, [register_no |-> reg, status |-> "Pending"])),
         attendance_count |-> Len(student_attendance)]

\* The read-only student pages answer alike behind the same gate.
StudentPageResponse(template, context) ==
    IF ~RegInSession THEN Redirect("/student/login") ELSE Render(template, context)

SessionReg == Get(session, "reg", None)

student_dashboard ==
    /\ request' = [route |-> "/student/dashboard", method |-> "GET"]
    /\ response' = StudentPageResponse("student_dashboard.html", StudentOverview(SessionReg))
    /\ UNCHANGED <<store, session>>

student_summary ==
    /\ request' = [route |-> "/student/summary", method |-> "GET"]
    /\ response' = StudentPageResponse("student_summary.html", StudentOverview(SessionReg))
    /\ UNCHANGED <<store, session>>

student_profile ==
    /\ request' = [route |-> "/student/profile", method |-> "GET"]
    /\ response' = StudentPageResponse("student_profile.html",
                       [student |-> FindOne(students, [register_no |-> SessionReg])])
    /\ UNCHANGED <<store, session>>

student_result ==
    /\ request' = [route |-> "/student/result", method |-> "GET"]
    /\ response' = StudentPageResponse("student_result.html",
                       [student |-> FindOne(students, [register_no |-> SessionReg]),
                        all_results |-> Find(results, [register_no |-> SessionReg])])
    /\ UNCHANGED <<store, session>>

student_attendance ==
    /\ request' = [route |-> "/student/attendance", method |-> "GET"]
    /\ response' = StudentPageResponse("student_attendance.html",
                       [data |-> Find(attendance, [register_no |-> SessionReg])])
    /\ UNCHANGED <<store, session>>

student_queries ==
    /\ request' = [route |-> "/student/queries", method |-> "GET"]
    /\ response' = StudentPageResponse("student_queries.html",
                       [queries |-> Find(queries, [register_no |-> SessionReg])])
    /\ UNCHANGED <<store, session>>

\* form: query_type, message.  The new document's _id is fresh.
student_query(method, form) ==
    LET student == FindOne(students, [register_no |-> SessionReg])
    IN  /\ request' = [route |-> "/student/query", method |-> method, form |-> form]
        /\ IF ~RegInSession
           THEN /\ response' = Redirect("/student/login")
                /\ queries' = queries
           ELSE IF method = "POST"
           THEN IF student = <<>>
                THEN /\ response' = ServerError
                     /\ queries' = queries
                ELSE /\ Len(queries) < MaxQueries
                     /\ queries' = InsertOne(queries,
                            [_id |-> Len(queries) + 1,
                             register_no |-> student[1].register_no,
                             name |-> student[1].name,
                             query_type |-> form.query_type,
                             message |-> form.message,
                             reply |-> "",
                             status |-> "Pending"])
                     /\ response' = Text("Query sent successfully")
           ELSE /\ response' = Render("student_query.html", EmptyDoc)
                /\ queries' = queries
        /\ UNCHANGED <<students, results, attendance, admins, session>>

(***************************************************************************)
(* Other routes.                                                           *)
(***************************************************************************)
index ==
    /\ request' = [route |-> "/", method |-> "GET"]
    /\ response' = Render("index.html",
                          [total_students |-> Len(students),
                           pass_count |-> Len(Find(results, [final_result |-> "PASS"])),
                           fail_count |-> Len(Find(results, [final_result |-> "FAIL"]))])
    /\ UNCHANGED <<store, session>>

logout ==
    /\ request' = [route |-> "/logout", method |-> "GET"]
    /\ session' = EmptyDoc
    /\ response' = Redirect("/")
    /\ UNCHANGED store

test_insert ==
    /\ request' = [route |-> "/test-insert", method |-> "GET"]
    /\ Len(students) < MaxStudents
    /\ students' = InsertOne(students,
           [register_no |-> "999", name |-> "Test", email |-> "test@test.com"])
    /\ response' = Text("Inserted Test Student")
    /\ UNCHANGED <<results, attendance, queries, admins, session>>

(***************************************************************************)
(* The requests the portal is driven with.                                 *)
(***************************************************************************)
Methods == {"GET", "POST"}

\* A GET carries no form.
Forms(method, forms) == IF method = "GET" THEN {EmptyDoc} ELSE forms

RegisterNos == {"R1"}

UrlRegisterNos == {"R1", "999"}

Emails == {"ann@x.org"}

LoginEmails == {"ann@x.org", "test@test.com"}

AdminLoginForms == {[email |-> AdminEmail, password |-> p] : p \in {AdminPassword, "bad"}}

StudentLoginForms == {[email |-> e, password |-> p] : e \in LoginEmails, p \in {"pw", "bad"}}

RegisterForms ==
    {[register_no |-> r, name |-> "Ann", email |-> e, password |-> "pw"] :
        r \in RegisterNos, e \in Emails}

AddStudentForms == {[department |-> "CS"] @@ f : f \in RegisterForms}

EditForms == {[name |-> "Ann", email |-> e, department |-> "CS"] : e \in Emails}

AttendanceForm(reg, sem, counts) ==
    [register_no |-> reg, department |-> "CS", semester |-> sem, subject |-> "Maths",
     total |-> counts[1], attended |-> counts[2]]

SampleAttendance ==
    {AttendanceForm("R1", "1", <<<<"4">>, <<"3">>>>),
     AttendanceForm("R1", "1", <<<<"4">>, <<>>>>)}

BlankRow == [code |-> "", name |-> "", grade |-> <<>>, credit |-> <<>>, att |-> <<>>]

Row(grade, credit, att) ==
    [code |-> "CS101", name |-> "Maths", grade |-> grade, credit |-> credit, att |-> att]

UploadForm(reg, sem, filled) ==
    [register_no |-> reg, semester |-> sem,
     rows |-> [i \in 1..NumRows |-> IF i <= Len(filled) THEN filled[i] ELSE BlankRow]]

SampleUploads ==
    {UploadForm("R1", <<"1">>, <<Row(<<"O">>, <<"3">>, <<"9", "5">>),
                                 Row(<<" ", "u">>, <<"2">>, <<"7", "4", ".", "9">>)>>),
     UploadForm("R1", <<"1">>, <<Row(<<"O">>, <<"3">>, <<"9", "5">>),
                                 Row(<<"A">>, <<"x">>, <<"9", "0">>)>>)}

QueryForms == {[query_type |-> "General", message |-> "Hello"]}

ReplyForms == {[reply |-> "Yes"], [reply |-> ""]}

ObjectIds == {[wf |-> TRUE, oid |-> n] : n \in 1..MaxQueries} \cup {[wf |-> FALSE, oid |-> 0]}

Init ==
    /\ students = <<>>
    /\ results = <<>>
    /\ attendance = <<>>
    /\ queries = <<>>
    /\ admins = SeededAdmins
    /\ session = EmptyDoc
    /\ request = NoRequest
    /\ response = NoResponse

(***************************************************************************)
(* The portal: every route, driven with one well-formed and one malformed  *)
(* form each.                                                              *)
(***************************************************************************)
Next ==
    \/ \E m \in Methods : \E f \in Forms(m, AdminLoginForms) : admin_login(m, f)
    \/ admin_dashboard
    \/ \E m \in Methods : \E f \in Forms(m, AddStudentForms) : admin_add_student(m, f)
    \/ \E m \in Methods : \E f \in Forms(m, SampleAttendance) : admin_attendance(m, f)
    \/ \E r \in RegisterNos : get_student_department(r)
    \/ \E r \in RegisterNos : get_student_attendance(r, "1", "Maths")
    \/ \E r \in UrlRegisterNos : admin_delete_student(r)
    \/ \E r \in UrlRegisterNos, m \in Methods : \E f \in Forms(m, EditForms) :
          admin_edit_profile(r, m, f)
    \/ \E m \in Methods : \E f \in Forms(m, SampleUploads) : upload_result(m, f)
    \/ \E r \in UrlRegisterNos, f \in EditForms : admin_update_student(r, f)
    \/ admin_report
    \/ admin_queries
    \/ \E id \in ObjectIds, f \in ReplyForms : admin_reply(id, f)
    \/ \E m \in Methods : \E f \in Forms(m, RegisterForms) : student_register(m, f)
    \/ \E m \in Methods : \E f \in Forms(m, StudentLoginForms) : student_login(m, f)
    \/ student_dashboard
    \/ student_summary
    \/ student_profile
    \/ student_result
    \/ student_attendance
    \/ student_queries
    \/ \E m \in Methods : \E f \in Forms(m, QueryForms) : student_query(m, f)
    \/ index
    \/ logout
    \/ test_insert

Spec == Init /\ [][Next]_vars

(***************************************************************************)
(* Claims about the whole portal.                                          *)
(***************************************************************************)
DeleteCompleted ==
    /\ request.route = "/admin/delete-student"
    /\ response = Redirect("/admin/add-student")

HasRegisterNo(coll, reg) == \E i \in 1..Len(coll) : coll[i].register_no = reg

\* C1: no two distinct student records share a register number, and no two
\* share an email.
C1_UniqueRegisterNoAndEmail ==
    \A i, j \in 1..Len(students) :
        i # j => /\ students[i].register_no # students[j].register_no
                 /\ students[i].email # students[j].email

\* C2: when an admin's delete-student for register number R has completed, no
\* student, result or attendance record carries R.
C2_DeleteLeavesNoRecord ==
    DeleteCompleted =>
        /\ ~HasRegisterNo(students, request.register_no)
        /\ ~HasRegisterNo(results, request.register_no)
        /\ ~HasRegisterNo(attendance, request.register_no)

\* C9: in the admin report every student's query_status is the status of the
\* student's most recently created query, and null exactly when the student
\* has none; a student with no attendance, results or queries is reported
\* with attendance_posted false, an empty result_summary and a null
\* query_status.
C9_ReportShowsLatestQueryStatus ==
    (request.route = "/admin/reports" /\ AdminInSession) =>
        /\ response.kind = "render"
        /\ Len(response.context.report) = Len(students)
        /\ \A i \in 1..Len(students) :
              LET entry == response.context.report[i]
                  reg == students[i].register_no
                  own == Find(queries, [register_no |-> reg])
              IN  /\ entry.register_no = reg
                  /\ (entry.query_status = None) <=> (own = <<>>)
                  /\ own # <<>> => entry.query_status = own[Len(own)].status
                  /\ ~HasRegisterNo(attendance, reg) => ~entry.attendance_posted
                  /\ ~HasRegisterNo(results, reg) => entry.result_summary = <<>>

\* C10: every result record and every attendance record carries the register
\* number of a student record that exists.
C10_RecordsBelongToStudents ==
    /\ \A i \in 1..Len(results) : HasRegisterNo(students, results[i].register_no)
    /\ \A i \in 1..Len(attendance) : HasRegisterNo(students, attendance[i].register_no)

(***************************************************************************)
(* The session gates: every gated route, with the routes that give and     *)
(* take a session identity and that create the records behind the gates.   *)
(***************************************************************************)
NextGates ==
    \/ \E m \in Methods : \E f \in Forms(m, AdminLoginForms) : admin_login(m, f)
    \/ \E m \in Methods : \E f \in Forms(m, RegisterForms) : student_register(m, f)
    \/ \E m \in Methods : \E f \in Forms(m, StudentLoginForms) : student_login(m, f)
    \/ logout
    \/ admin_dashboard
    \/ \E m \in Methods : \E f \in Forms(m, AddStudentForms) : admin_add_student(m, f)
    \/ \E m \in Methods : \E f \in Forms(m, SampleAttendance) : admin_attendance(m, f)
    \/ \E r \in RegisterNos : admin_delete_student(r)
    \/ \E r \in RegisterNos, m \in Methods : \E f \in Forms(m, EditForms) :
          admin_edit_profile(r, m, f)
    \/ \E m \in Methods : \E f \in Forms(m, SampleUploads) : upload_result(m, f)
    \/ \E r \in RegisterNos, f \in EditForms : admin_update_student(r, f)
    \/ admin_report
    \/ admin_queries
    \/ \E id \in ObjectIds, f \in ReplyForms : admin_reply(id, f)
    \/ student_dashboard
    \/ student_summary
    \/ student_profile
    \/ student_result
    \/ student_attendance
    \/ student_queries
    \/ \E m \in Methods : \E f \in Forms(m, QueryForms) : student_query(m, f)

SpecGates == Init /\ [][NextGates]_vars

AdminRoutes ==
    {"/admin/dashboard", "/admin/add-student", "/admin/attendance", "/admin/upload",
     "/admin/edit-profile", "/admin/update-student", "/admin/delete-student",
     "/admin/reports", "/admin/queries", "/admin/reply"}

StudentRoutes ==
    {"/student/dashboard", "/student/summary", "/student/profile", "/student/result",
     "/student/attendance", "/student/queries", "/student/query"}

\* C4: a request to an admin route other than the login, made with a session
\* that carries no admin identity (whether or not it carries a reg identity),
\* and a request to a student route other than register and login, made with
\* a session that carries no reg identity, is answered with a redirect to the
\* relevant login and changes no collection.
C4_GatesRedirectAndPreserve ==
    [][/\ (request'.route \in AdminRoutes /\ "admin" \notin DOMAIN session)
             => (response' = Redirect("/admin") /\ UNCHANGED store)
       /\ (request'.route \in StudentRoutes /\ "reg" \notin DOMAIN session)
             => (response' = Redirect("/student/login") /\ UNCHANGED store)]_vars

\* A student is logged in, no admin is, records exist, and an admin route has
\* just been refused.
C4_Witness ==
    /\ request.route = "/admin/delete-student"
    /\ response = Redirect("/admin")
    /\ "reg" \in DOMAIN session
    /\ "admin" \notin DOMAIN session
    /\ students # <<>>
    /\ results # <<>>
    /\ attendance # <<>>
    /\ queries # <<>>

(***************************************************************************)
(* The life of a query: students register, log in and ask; the admin       *)
(* replies, reads and deletes students.                                    *)
(***************************************************************************)
AllReplyForms == {[reply |-> "Yes"], [reply |-> "No"], [reply |-> ""], EmptyDoc}

NextQueries ==
    \/ \E f \in AdminLoginForms : admin_login("POST", f)
    \/ \E f \in RegisterForms : student_register("POST", f)
    \/ \E f \in StudentLoginForms : student_login("POST", f)
    \/ logout
    \/ \E m \in Methods : \E f \in Forms(m, QueryForms) : student_query(m, f)
    \/ student_queries
    \/ admin_queries
    \/ \E id \in ObjectIds, f \in AllReplyForms : admin_reply(id, f)
    \/ \E r \in RegisterNos : admin_delete_student(r)

SpecQueries == Init /\ [][NextQueries]_vars

CreatedPending(q) == q.reply = "" /\ q.status = "Pending"

\* C7 as stated: every query is created with an empty reply and status
\* Pending, and once an admin reply has made it Replied no later operation
\* changes its reply or its status.
C7_RepliedQueryNeverChanges ==
    [][/\ Len(queries') >= Len(queries)
       /\ \A i \in (Len(queries) + 1)..Len(queries') : CreatedPending(queries'[i])
       /\ \A i \in 1..Len(queries) :
             queries[i].status = "Replied" =>
                 /\ queries'[i].reply = queries[i].reply
                 /\ queries'[i].status = queries[i].status]_vars

\* C7 as amended: every query is created with an empty reply and status
\* Pending; only an admin reply changes a query, and it changes only its
\* reply, to a non-empty text, and its status, to Replied; once Replied a
\* query stays Replied with a non-empty reply (a later admin reply may
\* overwrite the reply text).
C7_OnlyReplyMutatesAndRepliedStays ==
    [][/\ Len(queries') >= Len(queries)
       /\ \A i \in (Len(queries) + 1)..Len(queries') : CreatedPending(queries'[i])
       /\ \A i \in 1..Len(queries) :
             /\ queries'[i] # queries[i] =>
                   /\ request'.route = "/admin/reply"
                   /\ Get(request'.form, "reply", "") # ""
                   /\ queries'[i] = [queries[i] EXCEPT !.reply = request'.form.reply,
                                                       !.status = "Replied"]
             /\ queries[i].status = "Replied" =>
                   /\ queries'[i].status = "Replied"
                   /\ queries'[i].reply # ""]_vars

\* Of two queries the first has just been replied to and the second is
\* still pending.
C7_Witness ==
    /\ request.route = "/admin/reply"
    /\ response = Redirect("/admin/queries")
    /\ Len(queries) = 2
    /\ queries[1].status = "Replied"
    /\ queries[1].reply = request.form.reply
    /\ CreatedPending(queries[2])

(***************************************************************************)
(* Attendance uploads for three (student, semester, subject) triples, with *)
(* counts that parse, counts that do not, and a total of zero.             *)
(***************************************************************************)
CountInputs ==
    {<<<<"4">>, <<"3">>>>, <<<<" ", "3">>, <<"1">>>>, <<<<"0">>, <<"2">>>>,
     <<<<"4">>, <<"x">>>>}

AttendanceKeys == {<<"R1", "1">>, <<"R1", "2">>, <<"R2", "1">>}

AttendanceUploads == {AttendanceForm(k[1], k[2], c) : k \in AttendanceKeys, c \in CountInputs}

NextAttendance ==
    \/ \E f \in AdminLoginForms : admin_login("POST", f)
    \/ logout
    \/ \E m \in Methods : \E f \in Forms(m, AttendanceUploads) : admin_attendance(m, f)
    \/ \E r \in {"R1", "R2"} : admin_delete_student(r)
    \/ \E k \in AttendanceKeys : get_student_attendance(k[1], k[2], "Maths")

SpecAttendance == Init /\ [][NextAttendance]_vars

Triple(d) == <<d.register_no, d.semester, d.subject>>

AttendanceUploaded(req, resp) ==
    /\ req.route = "/admin/attendance"
    /\ resp = Text("Attendance uploaded successfully")

\* p is n / d as a percentage rounded to two decimals, in hundredths.
IsPercentage(p, n, d) ==
    IF d > 0
    THEN /\ 2 * (p * d - 10000 * n) <= d
         /\ 2 * (10000 * n - p * d) <= d
    ELSE p = 0

CarriesUpload(d, form) ==
    /\ Triple(d) = Triple(form)
    /\ d.total_classes = ParseInt(form.total).val
    /\ d.attended_classes = ParseInt(form.attended).val
    /\ IsPercentage(d.attendance_percentage, d.attended_classes, d.total_classes)

\* C3: the attendance collection holds at most one record for each (register
\* number, semester, subject); after an upload the record of its triple
\* carries the upload's total classes, attended classes and percentage, and
\* until the next upload for that triple the record is kept as it is or
\* deleted.
C3_OneRecordPerTripleWithLatestUpload ==
    /\ [](\A i, j \in 1..Len(attendance) :
             i # j => Triple(attendance[i]) # Triple(attendance[j]))
    /\ [](AttendanceUploaded(request, response) =>
             \E i \in 1..Len(attendance) : CarriesUpload(attendance[i], request.form))
    /\ [][\A i \in 1..Len(attendance) :
             \/ \E j \in 1..Len(attendance') : attendance'[j] = attendance[i]
             \/ \A j \in 1..Len(attendance') :
                   Triple(attendance'[j]) # Triple(attendance[i])
             \/ /\ AttendanceUploaded(request', response')
                /\ Triple(request'.form) = Triple(attendance[i])]_vars

\* The older of two records has just been overwritten by an upload.
C3_Witness ==
    /\ AttendanceUploaded(request, response)
    /\ Len(attendance) = 2
    /\ CarriesUpload(attendance[1], request.form)
    /\ attendance[1].attendance_percentage = 3333
    /\ attendance[2].attendance_percentage = 7500

(***************************************************************************)
(* The result computation: an upload form has been received from a logged  *)
(* in admin, over an empty results collection or one that holds an earlier *)
(* upload, and upload_result answers it.                                   *)
(***************************************************************************)
GradeInputs == {<<"O">>, <<" ", "u">>, <<"w", " ">>, <<"a", "+">>, <<"X">>}

CreditInputs == {<<"3">>, <<"2">>, <<"4">>, <<"0">>, <<"-", "1">>, <<"x">>}

AttInputs == {<<"7", "4", ".", "9">>, <<"8", "5">>, <<"a">>}

RowInputs ==
    {Row(g, c, <<"9", "5">>) : g \in GradeInputs, c \in CreditInputs}
        \cup {Row(<<"O">>, <<"3">>, a) : a \in AttInputs}
        \cup {BlankRow}

ComputeUploads ==
    {UploadForm("R1", <<"1">>, filled) : filled \in [1..MaxFilledRows -> RowInputs]}
        \cup {UploadForm("R1", sem, <<Row(<<"O">>, <<"3">>, <<"9", "5">>)>>) :
                 sem \in {<<>>, <<"I">>}}

EarlierUpload == UploadForm("R2", <<"2">>, <<Row(<<"A">>, <<"3">>, <<"9", "0">>)>>)

EarlierResult == ResultDocument(EarlierUpload, ReadRows(EarlierUpload.rows, 1, FirstAccumulator))

InitCompute ==
    /\ students = <<>>
    /\ results \in {<<>>, <<EarlierResult>>}
    /\ attendance = <<>>
    /\ queries = <<>>
    /\ admins = SeededAdmins
    /\ session = [admin |-> AdminEmail]
    /\ request \in {[route |-> "/admin/upload", method |-> "POST", form |-> f] :
                       f \in ComputeUploads}
    /\ response = NoResponse

NextCompute == upload_result(request.method, request.form)

SpecCompute == InitCompute /\ [][NextCompute]_vars

ResultUploaded ==
    /\ request.route = "/admin/upload"
    /\ response = Text("Result Uploaded Successfully")

\* The rows of a form that are submitted, and the k-th of them.
Submitted(form) == {i \in 1..NumRows : form.rows[i].code # ""}

SubmittedRow(form, k) ==
    form.rows[CHOOSE i \in Submitted(form) :
                  Cardinality({j \in Submitted(form) : j <= i}) = k]

\* The grade reads U or W once trimmed and upper-cased.
FailingGrade(grade) ==
    \E i \in 1..Len(grade) :
        /\ grade[i] \in {"u", "U", "w", "W"}
        /\ \A j \in 1..Len(grade) : j # i => IsSpace(grade[j])

Stored == results[Len(results)]

\* C5: the stored final_result is FAIL if and only if some submitted row has
\* a grade that reads U or W once trimmed and upper-cased, and PASS
\* otherwise; each stored subject's own result is FAIL exactly when its
\* row's grade does.
C5_FailIffSomeGradeFails ==
    ResultUploaded =>
        /\ Len(Stored.subjects) = Cardinality(Submitted(request.form))
        /\ Stored.final_result =
              IF \E i \in Submitted(request.form) : FailingGrade(request.form.rows[i].grade)
              THEN "FAIL" ELSE "PASS"
        /\ \A k \in 1..Len(Stored.subjects) :
              Stored.subjects[k].result =
                 IF FailingGrade(SubmittedRow(request.form, k).grade)
                 THEN "FAIL" ELSE "PASS"

\* Two rows, the second one failing with the grade written " u".
C5_Witness ==
    /\ ResultUploaded
    /\ Len(Stored.subjects) = 2
    /\ Stored.subjects[1].result = "PASS"
    /\ Stored.subjects[2].result = "FAIL"
    /\ request.form.rows[2].grade = <<" ", "u">>
    /\ Stored.final_result = "FAIL"

\* The sum of term[i] over the submitted rows of a form.
SumOverSubmitted(form, term) ==
    LET upto[n \in 0..NumRows] ==
            IF n = 0 THEN 0
            ELSE upto[n - 1] + (IF n \in Submitted(form) THEN term[n] ELSE 0)
    IN  upto[NumRows]

CreditOf(form, i) == ParseInt(form.rows[i].credit).val

PointsOf(form, i) == GRADE_POINTS(Upper(Strip(form.rows[i].grade))) * CreditOf(form, i)

\* g, in hundredths, is n / d rounded to two decimals.
IsRounded(g, n, d) ==
    /\ 2 * (g * d - 100 * n) <= d
    /\ 2 * (100 * n - g * d) <= d

\* C6: the stored total_credits is the sum of the submitted rows' credits;
\* when that sum is greater than 0 the stored gpa is the sum of grade_point
\* times credit divided by the sum of credits, rounded to two decimals, a
\* grade outside the table counting 0; with no submitted row the gpa is 0.
C6_GpaIsWeightedMean ==
    ResultUploaded =>
        LET credits == SumOverSubmitted(request.form,
                           [i \in 1..NumRows |-> CreditOf(request.form, i)])
            points == SumOverSubmitted(request.form,
                          [i \in 1..NumRows |-> PointsOf(request.form, i)])
        IN  /\ Stored.total_credits = credits
            /\ credits > 0 => IsRounded(Stored.gpa, points, credits)
            /\ Submitted(request.form) = {} => Stored.gpa = 0

\* The example of the specification: (credit 3, grade O), (credit 2, grade U)
\* gives gpa 6.0.
C6_Witness ==
    /\ ResultUploaded
    /\ Len(Stored.subjects) = 2
    /\ Stored.subjects[1].credit = 3 /\ Stored.subjects[1].grade = <<"O">>
    /\ Stored.subjects[2].credit = 2 /\ Stored.subjects[2].grade = <<"U">>
    /\ Stored.gpa = 600
    /\ Stored.total_credits = 5

Malformed(form) ==
    \/ ~ParseInt(form.semester).ok
    \/ \E i \in Submitted(form) :
          ~ParseInt(form.rows[i].credit).ok \/ ~ParseFloat(form.rows[i].att).ok

\* C8: an admin's result upload with a malformed semester, or with a
\* malformed credit or attendance value in any submitted row, is answered
\* with an error and changes no collection.
C8_MalformedUploadChangesNothing ==
    [][(/\ request'.route = "/admin/upload"
        /\ request'.method = "POST"
        /\ "admin" \in DOMAIN session
        /\ Malformed(request'.form))
          => (response' = ServerError /\ UNCHANGED store)]_vars

\* A well-formed first row, a malformed credit in the second, and the
\* earlier result still the only one.
C8_Witness ==
    /\ request.route = "/admin/upload"
    /\ response = ServerError
    /\ ParseInt(request.form.rows[1].credit).ok
    /\ request.form.rows[1].code # ""
    /\ request.form.rows[2].code # ""
    /\ ~ParseInt(request.form.rows[2].credit).ok
    /\ results = <<EarlierResult>>

====
